---- MODULE Spec2Model ----
(***************************************************************************)
(* A model of the agent wiring of IBM/ibmi-mcp-server: the model selector, *)
(* the run configuration and its config-file overrides, the agent builder, *)
(* the agent registry, the security operations agent and the two workflow  *)
(* step graphs.  Each part has its own specification over its own          *)
(* variables; the variables of the other parts stay at their initial       *)
(* value.                                                                  *)
(***************************************************************************)
EXTENDS Integers, Sequences, FiniteSets, TLC

VARIABLES
    selCall,      \* model selector: the function applied ("none" before the call)
    selArg,       \* model selector: its argument
    selResult,    \* model selector: what the call returned or raised
    configs,      \* run configuration: the AgentRunConfig objects, by identity (index)
    cfgCall,      \* run configuration: the last with_config_overrides call and its result
    builder,      \* agent builder: the AgentBuilder object's fields
    lastBuild,    \* agent builder: the build call that has just returned or raised
    registry,     \* agent registry: _AGENT_REGISTRY, agent id -> registration
    regCall,      \* agent registry: the last call and what it returned or raised
    mcpClient,    \* langchain agents: the module global _mcp_client (None until made)
    lcCall,       \* langchain agents: the creator call whose result the caller holds
    ctx,          \* langchain agents: the context manager a create_*_agent call returned
    wf,           \* workflow run: which workflow is being executed
    wfPc,         \* workflow run: the position in the workflow's step list
    wfInner,      \* workflow run: inside a Condition, 0 before its evaluator ran, then the position in its steps
    wfRunning,    \* workflow run: the names of the steps started and not finished
    wfBranch,     \* workflow run: the outputs of the finished branches of the current Parallel
    wfOut,        \* workflow run: step name -> output, of the finished steps
    wfLog         \* workflow run: the start, finish and condition events so far

selVars == <<selCall, selArg, selResult>>
cfgVars == <<configs, cfgCall>>
bldVars == <<builder, lastBuild>>
regVars == <<registry, regCall>>
lcVars == <<mcpClient, ctx, lcCall>>
wfVars == <<wf, wfPc, wfInner, wfRunning, wfBranch, wfOut, wfLog>>

vars == <<selVars, cfgVars, bldVars, regVars, lcVars, wfVars>>

\* What each part leaves alone: the variables of the other parts.
selOthers == <<cfgVars, bldVars, regVars, lcVars, wfVars>>
cfgOthers == <<selVars, bldVars, regVars, lcVars, wfVars>>
bldOthers == <<selVars, cfgVars, regVars, lcVars, wfVars>>
regOthers == <<selVars, cfgVars, bldVars, lcVars, wfVars>>
lcOthers == <<selVars, cfgVars, bldVars, regVars, wfVars>>
wfOthers == <<selVars, cfgVars, bldVars, regVars, lcVars>>

(***************************************************************************)
(* Python values.  A str is a sequence of atoms: an atom is a run of       *)
(* characters the code never looks into (a provider word in one casing, a  *)
(* model id word), the colon, or one whitespace character.                 *)
(***************************************************************************)
MaxSpecLen == 4

Colon == ":"
Space == " "

Atoms == {"openai", "OpenAI", "anthropic", "watsonx", "ollama", "invalid",
          "gpt-4o", Colon, Space}

\* The atoms with an upper-case letter, and their lower-case form
UpperAtoms ==
    [a \in {"OpenAI", "WARNING", "Highly"} |->
        CASE a = "OpenAI" -> "openai"
          [] a = "WARNING" -> "warning"
          [] a = "Highly" -> "highly"]

\* str.lower() on one atom
LowerAtom(a) ==
    IF a \in DOMAIN UpperAtoms THEN UpperAtoms[a] ELSE a

\* str.lower()
Lower(s) == [i \in 1..Len(s) |-> LowerAtom(s[i])]

RECURSIVE LStrip(_)
LStrip(s) ==
    IF s # <<>> /\ Head(s) = Space THEN LStrip(Tail(s)) ELSE s

RECURSIVE RStrip(_)
RStrip(s) ==
    IF s # <<>> /\ s[Len(s)] = Space THEN RStrip(SubSeq(s, 1, Len(s) - 1)) ELSE s

\* str.strip()
Strip(s) == RStrip(LStrip(s))

\* sub in s, for a one-atom sub
Contains(s, a) == \E i \in 1..Len(s) : s[i] = a

\* s.index(a): the first position of a in s (a is in s)
IndexOf(s, a) == CHOOSE i \in 1..Len(s) : s[i] = a /\ \A j \in 1..(i - 1) : s[j] # a

\* s.split(":", 1) for an s that holds a colon: [before, after] the first colon
Split1(s) ==
    LET i == IndexOf(s, Colon)
    IN  <<SubSeq(s, 1, i - 1), SubSeq(s, i + 1, Len(s))>>

\* A str value and a pre-configured Model instance, as get_model tells them apart.
Str(s) == [kind |-> "str", val |-> s]
ModelInstance(cls, id) == [kind |-> "model", cls |-> cls, id |-> id]

Returned(v) == [kind |-> "return", value |-> v]
Raised(e) == [kind |-> "raise", exc |-> e]
Pending == [kind |-> "pending"]

(***************************************************************************)
(* utils/model_selector.py                                                 *)
(***************************************************************************)
\* The provider branches of get_model: the class constructed for a provider.
ProviderClass(provider) ==
    IF provider = <<"openai">> THEN "OpenAIChat"
    ELSE IF provider = <<"anthropic">> THEN "Claude"
    ELSE IF provider = <<"ollama">> THEN "Ollama"
    ELSE "unsupported"

\* get_model with the last branch falling back to a default provider.
get_model_fallback(model_spec) ==
    IF model_spec.kind # "str" THEN Returned(model_spec)
    ELSE IF ~Contains(model_spec.val, Colon) THEN Raised("ValueError")
    ELSE LET parts == Split1(model_spec.val)
             provider == Strip(Lower(parts[1]))
         IN  IF ProviderClass(provider) = "unsupported"
             THEN Returned(ModelInstance("Ollama", parts[2]))
             ELSE Returned(ModelInstance(ProviderClass(provider), parts[2]))

get_model(model_spec) ==
    IF model_spec.kind # "str" THEN Returned(model_spec)
    ELSE IF ~Contains(model_spec.val, Colon) THEN Raised("ValueError")
    ELSE LET parts == Split1(model_spec.val)
             provider == Strip(Lower(parts[1]))
             model_id == parts[2]
         IN  IF ProviderClass(provider) = "unsupported"
             THEN Raised("ValueError")
             ELSE Returned(ModelInstance(ProviderClass(provider), model_id))

\* parse_model_spec splitting at the last ':' instead of the first.
parse_model_spec_rsplit(model_spec) ==
    IF ~Contains(model_spec, Colon) THEN Raised("ValueError")
    ELSE LET k == CHOOSE i \in 1..Len(model_spec) :
                    /\ model_spec[i] = Colon
                    /\ \A j \in (i + 1)..Len(model_spec) : model_spec[j] # Colon
         IN  Returned(<<Strip(Lower(SubSeq(model_spec, 1, k - 1))),
                        Strip(SubSeq(model_spec, k + 1, Len(model_spec)))>>)

parse_model_spec(model_spec) ==
    IF ~Contains(model_spec, Colon) THEN Raised("ValueError")
    ELSE LET parts == Split1(model_spec)
         IN  Returned(<<Strip(Lower(parts[1])), Strip(parts[2])>>)

COMMON_MODELS ==
    [alias \in {"gpt-4o", "gpt-4o-mini", "gpt-4-turbo", "gpt-3.5-turbo",
                "claude-4.5", "claude-sonnet", "claude-opus", "claude-haiku",
                "llama-3.3", "llama-3.1", "granite-3",
                "llama3.2", "llama3.1", "mistral", "phi3"} |->
        CASE alias = "gpt-4o"        -> <<"openai", Colon, "gpt-4o">>
          [] alias = "gpt-4o-mini"   -> <<"openai", Colon, "gpt-4o-mini">>
          [] alias = "gpt-4-turbo"   -> <<"openai", Colon, "gpt-4-turbo">>
          [] alias = "gpt-3.5-turbo" -> <<"openai", Colon, "gpt-3.5-turbo">>
          [] alias = "claude-4.5"    -> <<"anthropic", Colon, "claude-sonnet-4-5-20250929">>
          [] alias = "claude-sonnet" -> <<"anthropic", Colon, "claude-sonnet-4-5-20250929">>
          [] alias = "claude-opus"   -> <<"anthropic", Colon, "claude-opus-4-20250514">>
          [] alias = "claude-haiku"  -> <<"anthropic", Colon, "claude-3-5-haiku-20241022">>
          [] alias = "llama-3.3"     -> <<"watsonx", Colon, "llama-3-3-70b-instruct">>
          [] alias = "llama-3.1"     -> <<"watsonx", Colon, "llama-3-1-70b-instruct">>
          [] alias = "granite-3"     -> <<"watsonx", Colon, "granite-3-8b-instruct">>
          [] alias = "llama3.2"      -> <<"ollama", Colon, "llama3.2">>
          [] alias = "llama3.1"      -> <<"ollama", Colon, "llama3.1">>
          [] alias = "mistral"       -> <<"ollama", Colon, "mistral">>
          [] alias = "phi3"          -> <<"ollama", Colon, "phi3">>]

\* An alias is a str of one atom; a key of COMMON_MODELS is such a str.
IsAlias(s) == Len(s) = 1 /\ s[1] \in DOMAIN COMMON_MODELS

get_model_by_alias(alias) ==
    IF Contains(alias, Colon) THEN get_model(Str(alias))
    ELSE IF IsAlias(alias) THEN get_model(Str(COMMON_MODELS[alias[1]]))
    ELSE Raised("ValueError")

\* The str arguments tried: every str of at most MaxSpecLen atoms, every alias,
\* and one word that is no alias.
Strings == UNION {[1..n -> Atoms] : n \in 0..MaxSpecLen}
AliasStrings == {<<a>> : a \in DOMAIN COMMON_MODELS}
SpecInputs == Strings \cup AliasStrings \cup {<<"watsonx", Colon, "llama-3-3-70b-instruct">>}

\* The pre-configured Model instances passed instead of a str.
Instances == {ModelInstance("OpenAIChat", <<"gpt-4o">>), ModelInstance("WatsonX", <<"granite">>)}

SelIdle ==
    /\ selCall = "none"
    /\ selArg = Str(<<>>)
    /\ selResult = Pending

SelInit ==
    /\ selCall = "none"
    /\ selArg \in {Str(s) : s \in SpecInputs} \cup Instances
    /\ selResult = Pending

GetModelCall ==
    /\ selCall = "none"
    /\ selCall' = "get_model"
    /\ selResult' = get_model(selArg)
    /\ UNCHANGED <<selArg, selOthers>>

GetModelByAliasCall ==
    /\ selCall = "none"
    /\ selArg.kind = "str"
    /\ selCall' = "get_model_by_alias"
    /\ selResult' = get_model_by_alias(selArg.val)
    /\ UNCHANGED <<selArg, selOthers>>

ParseModelSpecCall ==
    /\ selCall = "none"
    /\ selArg.kind = "str"
    /\ selCall' = "parse_model_spec"
    /\ selResult' = parse_model_spec(selArg.val)
    /\ UNCHANGED <<selArg, selOthers>>

SelNext == GetModelCall \/ GetModelByAliasCall \/ ParseModelSpecCall

(***************************************************************************)
(* agents/config.py                                                        *)
(***************************************************************************)
MaxConfigs == 3

\* Optional[T]: None is the empty set, a value v is {v}.
None == {}
Some(v) == {v}
Value(opt) == CHOOSE v \in opt : TRUE

AgentIDs == {"ibmi-performance-monitor", "ibmi-sysadmin-discovery"}

OpenAISpec == Str(<<"openai", Colon, "gpt-4o">>)
WatsonxSpec == Str(<<"watsonx", Colon, "llama-3-3-70b-instruct">>)
AnthropicSpec == Str(<<"anthropic", Colon, "claude-sonnet-4">>)

\* What a config file can hold for one agent: each field absent (None) or set;
\* a model can be set to the empty str.
FileEntries ==
    [model : {None, Some(Str(<<>>)), Some(AnthropicSpec)},
     debug_mode : {None, Some(TRUE), Some(FALSE)},
     enable_reasoning : {None, Some(TRUE), Some(FALSE)}]

EmptyEntry == [model |-> None, debug_mode |-> None, enable_reasoning |-> None]
OtherEntry == [model |-> Some(WatsonxSpec), debug_mode |-> Some(TRUE),
               enable_reasoning |-> Some(FALSE)]

\* The config files: one agent's entry ranges over FileEntries while the other
\* agent's entry is fixed, so a lookup under the wrong agent id shows.
ConfigFiles ==
    {f \in [AgentIDs -> FileEntries \cup {OtherEntry}] :
        \E a \in AgentIDs : \A b \in AgentIDs \ {a} : f[b] \in {EmptyEntry, OtherEntry}}

NoManager == [kind |-> "None"]
Manager(f) == [kind |-> "AgentConfigManager", file |-> f]

McpUrls == {None, Some("http://ibmi:3010/mcp")}
Transports == {None, Some("sse")}

AgentRunConfigs(models, managers) ==
    [model : models,
     debug_mode : BOOLEAN,
     enable_reasoning : BOOLEAN,
     mcp_url : McpUrls,
     transport : Transports,
     debug_filtering : BOOLEAN,
     config_manager : managers]

\* bool(x) of a str or Model held in an Optional
TruthyModel(opt) == opt # None /\ (Value(opt).kind = "str" => Value(opt).val # <<>>)

\* with_config_overrides with the file's debug_mode and enable_reasoning applied by
\* "or", as its model is: a file's explicit False then no longer overrides.
with_config_overrides_or(self, agent_id) ==
    IF self.config_manager = NoManager THEN self
    ELSE LET agent_config == self.config_manager.file[agent_id]
         IN  [model |-> IF TruthyModel(agent_config.model)
                        THEN Value(agent_config.model) ELSE self.model,
              debug_mode |-> IF agent_config.debug_mode = Some(TRUE)
                             THEN TRUE ELSE self.debug_mode,
              enable_reasoning |-> IF agent_config.enable_reasoning = Some(TRUE)
                                   THEN TRUE ELSE self.enable_reasoning,
              mcp_url |-> self.mcp_url,
              transport |-> self.transport,
              debug_filtering |-> self.debug_filtering,
              config_manager |-> self.config_manager]

\* with_config_overrides that leaves mcp_url and transport out of the new
\* AgentRunConfig, so that they take the dataclass defaults.
with_config_overrides_defaults(self, agent_id) ==
    IF self.config_manager = NoManager THEN self
    ELSE LET agent_config == self.config_manager.file[agent_id]
         IN  [model |-> IF TruthyModel(agent_config.model)
                        THEN Value(agent_config.model) ELSE self.model,
              debug_mode |-> IF agent_config.debug_mode # None
                             THEN Value(agent_config.debug_mode) ELSE self.debug_mode,
              enable_reasoning |-> IF agent_config.enable_reasoning # None
                                   THEN Value(agent_config.enable_reasoning)
                                   ELSE self.enable_reasoning,
              mcp_url |-> None,
              transport |-> None,
              debug_filtering |-> self.debug_filtering,
              config_manager |-> self.config_manager]

with_config_overrides(self, agent_id) ==
    IF self.config_manager = NoManager THEN self
    ELSE LET agent_config == self.config_manager.file[agent_id]
         IN  [model |-> IF TruthyModel(agent_config.model)
                        THEN Value(agent_config.model) ELSE self.model,
              debug_mode |-> IF agent_config.debug_mode # None
                             THEN Value(agent_config.debug_mode) ELSE self.debug_mode,
              enable_reasoning |-> IF agent_config.enable_reasoning # None
                                   THEN Value(agent_config.enable_reasoning)
                                   ELSE self.enable_reasoning,
              mcp_url |-> self.mcp_url,
              transport |-> self.transport,
              debug_filtering |-> self.debug_filtering,
              config_manager |-> self.config_manager]

\* Whether with_config_overrides builds a new AgentRunConfig object or hands
\* back the receiver.
OverridesAllocates(self) == self.config_manager # NoManager

NoCall == [kind |-> "none"]

CfgIdle ==
    /\ configs = <<>>
    /\ cfgCall = NoCall

CfgInit ==
    /\ \E c \in AgentRunConfigs({OpenAISpec, ModelInstance("OpenAIChat", <<"gpt-4o">>)},
                                {NoManager} \cup {Manager(f) : f \in ConfigFiles}) :
            configs = <<c>>
    /\ cfgCall = NoCall

WithConfigOverridesCall(i, agent_id) ==
    /\ i \in 1..Len(configs)
    /\ Len(configs) < MaxConfigs
    /\ LET r == with_config_overrides(configs[i], agent_id)
       IN  IF OverridesAllocates(configs[i])
           THEN /\ configs' = Append(configs, r)
                /\ cfgCall' = [kind |-> "with_config_overrides", self |-> i,
                               agent_id |-> agent_id, result |-> Len(configs) + 1]
           ELSE /\ configs' = configs
                /\ cfgCall' = [kind |-> "with_config_overrides", self |-> i,
                               agent_id |-> agent_id, result |-> i]
    /\ UNCHANGED cfgOthers

CfgNext == \E i \in 1..MaxConfigs, a \in AgentIDs : WithConfigOverridesCall(i, a)

(***************************************************************************)
(* agents/builder.py                                                       *)
(***************************************************************************)
DEFAULT_AGENT_KWARGS ==
    [markdown |-> TRUE,
     add_datetime_to_context |-> TRUE,
     search_session_history |-> TRUE,
     num_history_sessions |-> 2,
     add_history_to_context |-> TRUE,
     num_history_runs |-> 3,
     read_chat_history |-> TRUE,
     read_tool_call_history |-> TRUE,
     retries |-> 3,
     enable_agentic_memory |-> TRUE]

\* The keyword arguments build passes to Agent() by name.
ExplicitAgentArgs ==
    {"id", "name", "model", "description", "instructions", "tools", "debug_mode", "db"}

\* dict.update: the entries of kwargs replace or extend those of d
DictUpdate(d, kwargs) ==
    [k \in DOMAIN d \cup DOMAIN kwargs |-> IF k \in DOMAIN kwargs THEN kwargs[k] ELSE d[k]]

\* env_config.mcp.url and env_config.mcp.transport, the environment's defaults
EnvMcpUrl == "http://env:3010/mcp"
EnvMcpTransport == "streamable-http"

FilteredMCPTools(url, transport, annotation_filters, debug_filtering) ==
    [cls |-> "FilteredMCPTools", url |-> url, transport |-> transport,
     annotation_filters |-> annotation_filters, debug_filtering |-> debug_filtering]

ReasoningTools == [cls |-> "ReasoningTools", add_instructions |-> TRUE]

CustomTool(name) == [cls |-> "CustomTool", name |-> name]

\* "x or default" for an Optional[str] x
OrDefault(opt, default) == IF opt # None /\ Value(opt) # "" THEN Value(opt) ELSE default

\* AgentBuilder.__init__
NewBuilder(agent_id, name) ==
    [agent_id |-> agent_id,
     name |-> name,
     description |-> "",
     instructions |-> "",
     toolsets |-> <<>>,
     additional_tools |-> <<>>,
     agent_kwargs |-> DEFAULT_AGENT_KWARGS]

\* The tools list with the reasoning tools appended before the additional tools.
tools_list_reasoning_first(self, effective_config) ==
    (IF self.toolsets # <<>>
     THEN <<FilteredMCPTools(OrDefault(effective_config.mcp_url, EnvMcpUrl),
                             OrDefault(effective_config.transport, EnvMcpTransport),
                             [toolsets |-> self.toolsets],
                             effective_config.debug_filtering)>>
     ELSE <<>>)
    \o (IF effective_config.enable_reasoning THEN <<ReasoningTools>> ELSE <<>>)
    \o self.additional_tools

\* The tools list build assembles (builder.py lines 200-218).
tools_list(self, effective_config) ==
    (IF self.toolsets # <<>>
     THEN <<FilteredMCPTools(OrDefault(effective_config.mcp_url, EnvMcpUrl),
                             OrDefault(effective_config.transport, EnvMcpTransport),
                             [toolsets |-> self.toolsets],
                             effective_config.debug_filtering)>>
     ELSE <<>>)
    \o self.additional_tools
    \o (IF effective_config.enable_reasoning THEN <<ReasoningTools>> ELSE <<>>)

\* AgentBuilder.build: the tools list it assembled and what the call returned or
\* raised.  The arguments of Agent() are evaluated first (get_model may raise),
\* then the call fails when agent_kwargs repeats a keyword passed by name.
build(self, config) ==
    LET effective_config == with_config_overrides(config, self.agent_id)
        tools == tools_list(self, effective_config)
        model == get_model(effective_config.model)
    IN  [config |-> config,
         tools_list |-> tools,
         result |->
            IF model.kind = "raise" THEN model
            ELSE IF DOMAIN self.agent_kwargs \cap ExplicitAgentArgs # {}
            THEN Raised("TypeError")
            ELSE Returned([id |-> self.agent_id,
                           name |-> self.name,
                           model |-> model.value,
                           description |-> self.description,
                           instructions |-> self.instructions,
                           tools |-> tools,
                           debug_mode |-> effective_config.debug_mode,
                           db |-> "get_database()",
                           kwargs |-> self.agent_kwargs])]

\* The inputs of the builder's methods.
Descriptions == {"Performance monitoring agent"}
Instructions == {"Monitor system performance..."}
ToolsetArgs == {<<>>, <<"performance">>, <<"performance", "sysadmin_browse">>}
ToolArgs == {<<>>, <<CustomTool("A")>>, <<CustomTool("B"), CustomTool("A")>>}
KwargsArgs == {[retries |-> 5, markdown |-> FALSE], [tools |-> <<CustomTool("C")>>]}

PerfFile ==
    [a \in AgentIDs |->
        IF a = "ibmi-performance-monitor"
        THEN [model |-> None, debug_mode |-> None, enable_reasoning |-> Some(FALSE)]
        ELSE OtherEntry]
DiscoveryFile ==
    [a \in AgentIDs |->
        IF a = "ibmi-performance-monitor"
        THEN [model |-> Some(WatsonxSpec), debug_mode |-> Some(TRUE), enable_reasoning |-> None]
        ELSE [model |-> Some(Str(<<>>)), debug_mode |-> None, enable_reasoning |-> Some(TRUE)]]

\* The run configurations handed to build.
BuildConfigs ==
    [model : {OpenAISpec, WatsonxSpec},
     debug_mode : BOOLEAN,
     enable_reasoning : BOOLEAN,
     mcp_url : McpUrls,
     transport : {None},
     debug_filtering : {FALSE},
     config_manager : {NoManager, Manager(PerfFile), Manager(DiscoveryFile)}]

NoBuild == [kind |-> "none"]

BldIdle ==
    /\ builder = NewBuilder("ibmi-performance-monitor", "IBM i Performance Monitor")
    /\ lastBuild = NoBuild

BldInit ==
    /\ \E a \in AgentIDs : builder = NewBuilder(a, "IBM i Agent")
    /\ lastBuild = NoBuild

WithDescription(description) ==
    /\ builder' = [builder EXCEPT !.description = description]
    /\ lastBuild' = NoBuild
    /\ UNCHANGED bldOthers

WithInstructions(instructions) ==
    /\ builder' = [builder EXCEPT !.instructions = instructions]
    /\ lastBuild' = NoBuild
    /\ UNCHANGED bldOthers

WithToolsets(toolsets) ==
    /\ builder' = [builder EXCEPT !.toolsets = toolsets]
    /\ lastBuild' = NoBuild
    /\ UNCHANGED bldOthers

WithAdditionalTools(tools) ==
    /\ builder' = [builder EXCEPT !.additional_tools = tools]
    /\ lastBuild' = NoBuild
    /\ UNCHANGED bldOthers

WithAgentKwargs(kwargs) ==
    /\ builder' = [builder EXCEPT !.agent_kwargs = DictUpdate(@, kwargs)]
    /\ lastBuild' = NoBuild
    /\ UNCHANGED bldOthers

Build(config) ==
    /\ lastBuild' = [kind |-> "build"] @@ build(builder, config)
    /\ UNCHANGED <<builder, bldOthers>>

BldNext ==
    \/ \E d \in Descriptions : WithDescription(d)
    \/ \E i \in Instructions : WithInstructions(i)
    \/ \E t \in ToolsetArgs : WithToolsets(t)
    \/ \E t \in ToolArgs : WithAdditionalTools(t)
    \/ \E k \in KwargsArgs : WithAgentKwargs(k)
    \/ \E c \in BuildConfigs : Build(c)

(***************************************************************************)
(* agents/registry.py                                                      *)
(***************************************************************************)
AgentMetadata(id, name) == [id |-> id, name |-> name]
AgentRegistration(metadata, factory) == [metadata |-> metadata, factory |-> factory]

\* The empty dict
EmptyDict == [k \in {} |-> {}]

\* register_agent with the registration made before the duplicate check.
register_agent_late_check(reg, metadata, factory_func) ==
    [registry |-> DictUpdate(reg, [k \in {metadata.id} |->
                                      AgentRegistration(metadata, factory_func)]),
     result |-> IF metadata.id \in DOMAIN reg
                THEN Raised("ValueError")
                ELSE Returned([wraps |-> factory_func])]

\* register_agent(metadata)(factory_func) on the registry reg: the registry
\* after the call and what the decorator returned or raised.
register_agent(reg, metadata, factory_func) ==
    IF metadata.id \in DOMAIN reg
    THEN [registry |-> reg, result |-> Raised("ValueError")]
    ELSE [registry |-> DictUpdate(reg, [k \in {metadata.id} |->
                                           AgentRegistration(metadata, factory_func)]),
          result |-> Returned([wraps |-> factory_func])]

\* The metadata and factories registered.
RegistryIds == {"performance", "sysadmin-discovery", "my-agent"}
RegistryNames == {"IBM i Performance Monitor", "My Agent"}
Factories == {"get_performance_agent", "get_my_agent"}

\* The signature the four factories of agents/ibmi_agents.py share:
\* def get_..._agent(config: AgentRunConfig = AgentRunConfig()) -> Agent
AgentFactories == {"get_performance_agent", "get_sysadmin_discovery_agent",
                   "get_sysadmin_browse_agent", "get_sysadmin_search_agent"}
FactorySignature(f) == [params |-> <<"config">>, defaults |-> {"config"}]

DefaultArgument == [kind |-> "default"]

\* Python's binding of a call's positional and keyword arguments to the
\* parameters of a signature: TypeError for too many positionals, an unexpected
\* keyword, a parameter given twice or a required parameter left out.
Bind(sig, args, kwargs) ==
    LET names == {sig.params[i] : i \in 1..Len(sig.params)}
    IN  IF \/ Len(args) > Len(sig.params)
           \/ \E k \in DOMAIN kwargs : k \notin names
           \/ \E i \in 1..Len(args) : i <= Len(sig.params) /\ sig.params[i] \in DOMAIN kwargs
           \/ \E i \in (Len(args) + 1)..Len(sig.params) :
                 sig.params[i] \notin DOMAIN kwargs /\ sig.params[i] \notin sig.defaults
        THEN Raised("TypeError")
        ELSE Returned([p \in names |->
                 LET i == CHOOSE j \in 1..Len(sig.params) : sig.params[j] = p
                 IN  IF i <= Len(args) THEN args[i]
                     ELSE IF p \in DOMAIN kwargs THEN kwargs[p]
                     ELSE DefaultArgument])

\* The wrapper register_agent returns: factory_func(*args, **kwargs).
wrapper(factory_func, args, kwargs) == Bind(FactorySignature(factory_func), args, kwargs)

\* The factory calls made at module level, in the form each module writes them.
ModelReasoning == [model |-> OpenAISpec, enable_reasoning |-> TRUE]
ConfigManagerOnly == [config_manager |-> "agent_config_manager"]
ModuleCall(module, factory, kwargs) ==
    [module |-> module, factory |-> factory, args |-> <<>>, kwargs |-> kwargs]
ModuleCalls ==
    <<ModuleCall("app/main.py", "get_sysadmin_discovery_agent", ConfigManagerOnly),
      ModuleCall("app/main.py", "get_sysadmin_browse_agent", ConfigManagerOnly),
      ModuleCall("app/main.py", "get_sysadmin_search_agent", ConfigManagerOnly),
      ModuleCall("app/main.py", "get_performance_agent", ConfigManagerOnly),
      ModuleCall("workflows/system_health_audit.py", "get_performance_agent", ModelReasoning),
      ModuleCall("workflows/system_health_audit.py", "get_sysadmin_discovery_agent", ModelReasoning),
      ModuleCall("workflows/system_health_audit.py", "get_sysadmin_browse_agent", ModelReasoning),
      ModuleCall("workflows/system_health_audit.py", "get_sysadmin_search_agent", ModelReasoning),
      ModuleCall("workflows/performance_investigation.py", "get_performance_agent", ModelReasoning),
      ModuleCall("workflows/performance_investigation.py", "get_sysadmin_discovery_agent", ModelReasoning),
      ModuleCall("workflows/database_performance_tuning.py", "get_performance_agent", ModelReasoning),
      ModuleCall("workflows/database_performance_tuning.py", "get_sysadmin_discovery_agent", ModelReasoning),
      ModuleCall("workflows/database_performance_tuning.py", "get_sysadmin_search_agent", ModelReasoning),
      ModuleCall("workflows/service_discovery.py", "get_sysadmin_discovery_agent",
                 [model |-> OpenAISpec, enable_reasoning |-> TRUE, debug_mode |-> FALSE]),
      ModuleCall("agents/ibmi_agents.py", "get_performance_agent", EmptyDict),
      ModuleCall("agents/ibmi_agents.py", "get_sysadmin_discovery_agent", EmptyDict),
      ModuleCall("agents/ibmi_agents.py", "get_sysadmin_browse_agent", EmptyDict),
      ModuleCall("agents/ibmi_agents.py", "get_sysadmin_search_agent", EmptyDict)>>

\* The calls the factories' docstrings show: a config, positional or by keyword.
FactoryConfigs ==
    [model : {OpenAISpec, WatsonxSpec},
     debug_mode : {FALSE},
     enable_reasoning : BOOLEAN,
     mcp_url : {None},
     transport : {None},
     debug_filtering : {FALSE},
     config_manager : {NoManager}]

RegIdle ==
    /\ registry = EmptyDict
    /\ regCall = NoCall

RegInit == RegIdle

RegisterAgent(metadata, factory_func) ==
    /\ LET r == register_agent(registry, metadata, factory_func)
       IN  /\ registry' = r.registry
           /\ regCall' = [kind |-> "register_agent", metadata |-> metadata,
                          factory |-> factory_func, result |-> r.result]
    /\ UNCHANGED regOthers

ClearRegistry ==
    /\ registry' = EmptyDict
    /\ regCall' = [kind |-> "clear_registry"]
    /\ UNCHANGED regOthers

\* A call of a decorated factory: the wrapper passes the arguments on.
CallFactory(module, factory, args, kwargs) ==
    /\ regCall' = [kind |-> "factory_call", module |-> module, factory |-> factory,
                   args |-> args, kwargs |-> kwargs,
                   result |-> wrapper(factory, args, kwargs)]
    /\ UNCHANGED <<registry, regOthers>>

RegNext ==
    \/ \E id \in RegistryIds, name \in RegistryNames, f \in Factories :
          RegisterAgent(AgentMetadata(id, name), f)
    \/ ClearRegistry
    \/ \E i \in 1..Len(ModuleCalls) :
          CallFactory(ModuleCalls[i].module, ModuleCalls[i].factory,
                      ModuleCalls[i].args, ModuleCalls[i].kwargs)
    \/ \E f \in AgentFactories, c \in FactoryConfigs :
          \/ CallFactory("docstring", f, <<c>>, EmptyDict)
          \/ CallFactory("docstring", f, <<>>, [config |-> c])

(***************************************************************************)
(* langchain/src/ibmi_agents/agents/ibmi_agents.py                         *)
(***************************************************************************)
MaxTools == 2

DEFAULT_MCP_URL == "http://127.0.0.1:3010/mcp"
DEFAULT_TRANSPORT == "streamable_http"

\* get_mcp_client: the module global after the call (the client is made once).
get_mcp_client(client, url, transport) ==
    IF client = None
    THEN Some([ibmi_tools |-> [url |-> url, transport |-> transport]])
    ELSE client

\* A LangChain tool: its name and its metadata attribute, which is missing or
\* None (NoMetadata) or a dict; a readOnlyHint is "True", "False" or "None".
NoMetadata == [kind |-> "None"]
Metadata(d) == [kind |-> "dict", items |-> d]
Tool(name, metadata) == [name |-> name, metadata |-> metadata]

ToolPool ==
    {Tool("list_users", Metadata([readOnlyHint |-> "True", domain |-> "security"])),
     Tool("lock_profile", Metadata([readOnlyHint |-> "False", domain |-> "security"])),
     Tool("revoke_public", Metadata([readOnlyHint |-> "False"])),
     Tool("audit_journal", Metadata([domain |-> "security"])),
     Tool("check_values", Metadata(EmptyDict)),
     Tool("probe", Metadata([readOnlyHint |-> "None"])),
     Tool("plain", NoMetadata)}

\* hasattr(tool, 'metadata') and tool.metadata
HasMetadata(tool) == tool.metadata.kind = "dict" /\ DOMAIN tool.metadata.items # {}

\* tool.metadata.get('readOnlyHint', True)
ReadOnlyHint(tool) ==
    IF "readOnlyHint" \in DOMAIN tool.metadata.items
    THEN tool.metadata.items["readOnlyHint"] ELSE "True"

\* bool(x) of a readOnlyHint value
TruthyHint(h) == h = "True"

RECURSIVE _get_non_readonly_tools_falsy(_)
\* _get_non_readonly_tools testing "not read_only_hint" in place of "is False".
_get_non_readonly_tools_falsy(tools) ==
    IF tools = <<>> THEN <<>>
    ELSE (IF HasMetadata(Head(tools)) /\ ~TruthyHint(ReadOnlyHint(Head(tools)))
          THEN <<Head(tools).name>> ELSE <<>>)
         \o _get_non_readonly_tools_falsy(Tail(tools))

RECURSIVE _get_non_readonly_tools(_)
_get_non_readonly_tools(tools) ==
    IF tools = <<>> THEN <<>>
    ELSE (IF HasMetadata(Head(tools)) /\ ReadOnlyHint(Head(tools)) = "False"
          THEN <<Head(tools).name>> ELSE <<>>)
         \o _get_non_readonly_tools(Tail(tools))

HumanInTheLoopMiddleware(interrupt_on) ==
    [cls |-> "HumanInTheLoopMiddleware", interrupt_on |-> interrupt_on]

\* The middleware list create_security_ops_agent builds (lines 459-473).
security_middleware(tools, enable_human_in_loop) ==
    IF ~enable_human_in_loop THEN <<>>
    ELSE LET non_readonly_tools == _get_non_readonly_tools(tools)
             names == {non_readonly_tools[i] : i \in 1..Len(non_readonly_tools)}
             interrupt_config ==
                [tool_name \in names |-> [allowed_decision |-> <<"approve", "reject">>]]
         IN  IF non_readonly_tools # <<>>
             THEN <<HumanInTheLoopMiddleware(interrupt_config)>>
             ELSE <<>>

\* The keyword arguments create_security_ops_agent passes to create_agent
\* (lines 497-511): the caller's kwargs override the fixed entries, and a
\* non-empty middleware list overrides both.
security_agent_kwargs(tools, middleware, kwargs) ==
    LET base == DictUpdate([model |-> "get_model(model_id)",
                            tools |-> tools,
                            system_prompt |-> "security operations assistant",
                            checkpointer |-> "get_shared_checkpointer()",
                            store |-> "get_shared_store()",
                            name |-> "IBM i Security Operations"], kwargs)
    IN  IF middleware # <<>>
        THEN DictUpdate(base, [middleware |-> middleware])
        ELSE base

\* security_filter with the category tested against None only.
security_filter_is_not_none(category) ==
    IF category # None
    THEN [domain |-> "security", category |-> Value(category)]
    ELSE [domain |-> "security"]

\* The annotation filter the security agent loads its tools with (lines 439-456).
security_filter(category) ==
    IF category # None /\ Value(category) # ""
    THEN [domain |-> "security", category |-> Value(category)]
    ELSE [domain |-> "security"]

\* The inputs of create_security_ops_agent.
UrlArgs == {DEFAULT_MCP_URL, "http://ibmi:3010/mcp"}
TransportArgs == {DEFAULT_TRANSPORT, "sse"}
CategoryArgs == {None, Some(""), Some("audit")}
CallerMiddleware == [cls |-> "CallerMiddleware"]
SecurityKwargs == {EmptyDict, [middleware |-> <<CallerMiddleware>>]}

\* The tool lists a load can return: at most MaxTools tools of the pool, none twice.
ToolLists ==
    {t \in UNION {[1..n -> ToolPool] : n \in 0..MaxTools} :
        \A i, j \in 1..Len(t) : i # j => t[i] # t[j]}

\* The toolset creators: the toolset each loads and the name it gives its agent.
ToolsetCreators ==
    {"create_performance_agent", "create_sysadmin_discovery_agent",
     "create_sysadmin_browse_agent", "create_sysadmin_search_agent"}
ToolsetOf(creator) ==
    CASE creator = "create_performance_agent" -> "performance"
      [] creator = "create_sysadmin_discovery_agent" -> "sysadmin_discovery"
      [] creator = "create_sysadmin_browse_agent" -> "sysadmin_browse"
      [] creator = "create_sysadmin_search_agent" -> "sysadmin_search"
AgentNameOf(creator) ==
    CASE creator = "create_performance_agent" -> "IBM i Performance Monitor"
      [] creator = "create_sysadmin_discovery_agent" -> "IBM i SysAdmin Discovery"
      [] creator = "create_sysadmin_browse_agent" -> "IBM i SysAdmin Browser"
      [] creator = "create_sysadmin_search_agent" -> "IBM i SysAdmin Search"

\* The keyword arguments a toolset creator passes to create_agent.
toolset_agent_kwargs(creator, tools, kwargs) ==
    DictUpdate([model |-> "get_model(model_id)",
                tools |-> tools,
                system_prompt |-> ToolsetOf(creator),
                checkpointer |-> "get_shared_checkpointer()",
                store |-> "get_shared_store()",
                name |-> AgentNameOf(creator)], kwargs)

AVAILABLE_AGENTS ==
    [performance |-> "create_performance_agent",
     discovery |-> "create_sysadmin_discovery_agent",
     browse |-> "create_sysadmin_browse_agent",
     search |-> "create_sysadmin_search_agent",
     security |-> "create_security_ops_agent"]

\* The key of AVAILABLE_AGENTS a creator is registered under
AgentTypeOf(creator) ==
    CHOOSE t \in DOMAIN AVAILABLE_AGENTS : AVAILABLE_AGENTS[t] = creator

NoContext == [pc |-> "none"]

\* agent_session(): the context manager a creator returns, not yet entered,
\* closed over the creator's arguments and the client it took.
agent_session(creator, client, mcp_url, transport, category, enable_human_in_loop, kwargs) ==
    [pc |-> "created",
     creator |-> creator,
     agent_type |-> AgentTypeOf(creator),
     mcp_url |-> mcp_url,
     transport |-> transport,
     category |-> category,
     enable_human_in_loop |-> enable_human_in_loop,
     kwargs |-> kwargs,
     client |-> Value(client),
     session |-> "none",
     filter |-> EmptyDict,
     tools |-> <<>>,
     agent |-> EmptyDict,
     body_raised |-> FALSE]

\* A creator called with the keyword arguments kw: its named parameters take
\* their values from kw or their defaults, the rest of kw is its **kwargs.
KwGet(kw, k, default) == IF k \in DOMAIN kw THEN kw[k] ELSE default
KwRest(kw, named) == [k \in DOMAIN kw \ named |-> kw[k]]

create_toolset_agent(creator, client, kw) ==
    LET mcp_url == KwGet(kw, "mcp_url", DEFAULT_MCP_URL)
        transport == KwGet(kw, "transport", DEFAULT_TRANSPORT)
        c == get_mcp_client(client, mcp_url, transport)
    IN  [client |-> c,
         ctx |-> agent_session(creator, c, mcp_url, transport, None, FALSE,
                               KwRest(kw, {"model_id", "mcp_url", "transport"}))]

create_security_ops_agent(client, kw) ==
    LET mcp_url == KwGet(kw, "mcp_url", DEFAULT_MCP_URL)
        transport == KwGet(kw, "transport", DEFAULT_TRANSPORT)
        category == KwGet(kw, "category", None)
        enable_human_in_loop == KwGet(kw, "enable_human_in_loop", TRUE)
        c == get_mcp_client(client, mcp_url, transport)
    IN  [client |-> c,
         ctx |-> agent_session("create_security_ops_agent", c, mcp_url, transport,
                               category, enable_human_in_loop,
                               KwRest(kw, {"model_id", "mcp_url", "transport",
                                           "category", "enable_human_in_loop"}))]

CallCreator(creator, client, kw) ==
    IF creator = "create_security_ops_agent"
    THEN create_security_ops_agent(client, kw)
    ELSE create_toolset_agent(creator, client, kw)

\* create_ibmi_agent with the creator called before the type is checked.
create_ibmi_agent_late_check(client, old, agent_type, kw) ==
    IF agent_type \notin DOMAIN AVAILABLE_AGENTS
    THEN [result |-> Raised("ValueError"),
          client |-> get_mcp_client(client, KwGet(kw, "mcp_url", DEFAULT_MCP_URL),
                                    KwGet(kw, "transport", DEFAULT_TRANSPORT)),
          ctx |-> old]
    ELSE [result |-> Returned("agent_session()")] @@
         CallCreator(AVAILABLE_AGENTS[agent_type], client, kw)

\* create_ibmi_agent(agent_type, **kwargs) with the module's client being
\* client and the caller's earlier context manager old: what it returns or
\* raises, the client and the caller's context manager after it.
create_ibmi_agent(client, old, agent_type, kw) ==
    IF agent_type \notin DOMAIN AVAILABLE_AGENTS
    THEN [result |-> Raised("ValueError"), client |-> client, ctx |-> old]
    ELSE [result |-> Returned("agent_session()")] @@
         CallCreator(AVAILABLE_AGENTS[agent_type], client, kw)

\* The agent types callers pass: the registered ones and two that are not.
AgentTypeArgs == DOMAIN AVAILABLE_AGENTS \cup {"unknown", "Security"}

\* The keyword arguments callers pass through create_ibmi_agent.
IbmiKwargs(agent_type) ==
    {EmptyDict,
     [model_id |-> "gpt-oss:20b"],
     [mcp_url |-> "http://ibmi:3010/mcp", transport |-> "sse"]}
    \cup (IF agent_type = "security"
          THEN {[model_id |-> "gpt-oss:20b", category |-> Some("audit")]}
          ELSE {})

\* The pool the toolset agents' loads draw from.
ToolsetToolLists == {t \in ToolLists : \A i \in 1..Len(t) : t[i].metadata = NoMetadata}

LcIdle ==
    /\ mcpClient = None
    /\ ctx = NoContext
    /\ lcCall = NoCall

LcInit == LcIdle

\* The caller holds no context manager it has entered and not left.
NoOpenContext == ctx.pc \in {"none", "created", "closed", "failed"}

\* create_security_ops_agent: takes the shared client and returns the context
\* manager agent_session(), not yet entered.
CreateSecurityOpsAgent(mcp_url, transport, category, enable_human_in_loop, kwargs) ==
    /\ NoOpenContext
    /\ LET r == create_security_ops_agent(mcpClient,
                    DictUpdate([mcp_url |-> mcp_url, transport |-> transport,
                                category |-> category,
                                enable_human_in_loop |-> enable_human_in_loop], kwargs))
       IN  /\ mcpClient' = r.client
           /\ ctx' = r.ctx
    /\ lcCall' = [kind |-> "create_security_ops_agent"]
    /\ UNCHANGED lcOthers

\* create_performance_agent and the three create_sysadmin_*_agent functions.
CreateToolsetAgent(creator, mcp_url, transport, kwargs) ==
    /\ NoOpenContext
    /\ LET r == create_toolset_agent(creator, mcpClient,
                    DictUpdate([mcp_url |-> mcp_url, transport |-> transport], kwargs))
       IN  /\ mcpClient' = r.client
           /\ ctx' = r.ctx
    /\ lcCall' = [kind |-> creator]
    /\ UNCHANGED lcOthers

\* create_ibmi_agent(agent_type, **kwargs)
CreateIbmiAgent(agent_type, kw) ==
    /\ NoOpenContext
    /\ LET r == create_ibmi_agent(mcpClient, ctx, agent_type, kw)
       IN  /\ mcpClient' = r.client
           /\ ctx' = r.ctx
           /\ lcCall' = [kind |-> "create_ibmi_agent", agent_type |-> agent_type,
                         kwargs |-> kw, result |-> r.result]
    /\ UNCHANGED lcOthers

\* async with client.session("ibmi_tools") as session: the caller enters the
\* context manager the last call returned.
OpenSession ==
    /\ ctx.pc = "created"
    /\ ctx' = [ctx EXCEPT !.pc = "session_open", !.session = "open"]
    /\ lcCall' = NoCall
    /\ UNCHANGED <<mcpClient, lcOthers>>

\* await load_filtered_mcp_tools(session, annotation_filters=..., debug=True):
\* the server answers with some list of tools.
LoadSecurityTools(tools) ==
    /\ ctx.pc = "session_open"
    /\ ctx.agent_type = "security"
    /\ ctx' = [ctx EXCEPT !.pc = "tools_loaded",
                          !.filter = security_filter(ctx.category),
                          !.tools = tools]
    /\ UNCHANGED <<mcpClient, lcCall, lcOthers>>

\* await load_toolset_tools(session, "<toolset>", debug=True)
LoadToolsetTools(tools) ==
    /\ ctx.pc = "session_open"
    /\ ctx.creator \in ToolsetCreators
    /\ ctx' = [ctx EXCEPT !.pc = "tools_loaded",
                          !.filter = [toolsets |-> ToolsetOf(ctx.creator)],
                          !.tools = tools]
    /\ UNCHANGED <<mcpClient, lcCall, lcOthers>>

\* The rest of agent_session() up to its yield: the middleware, the agent.
CreateSecurityAgent ==
    /\ ctx.pc = "tools_loaded"
    /\ ctx.agent_type = "security"
    /\ LET middleware == security_middleware(ctx.tools, ctx.enable_human_in_loop)
       IN  ctx' = [ctx EXCEPT !.pc = "yielded",
                              !.agent = security_agent_kwargs(ctx.tools, middleware, ctx.kwargs)]
    /\ UNCHANGED <<mcpClient, lcCall, lcOthers>>

\* A toolset creator's create_agent(...) and the yield.
CreateToolsetAgentInSession ==
    /\ ctx.pc = "tools_loaded"
    /\ ctx.creator \in ToolsetCreators
    /\ ctx' = [ctx EXCEPT !.pc = "yielded",
                          !.agent = toolset_agent_kwargs(ctx.creator, ctx.tools, ctx.kwargs)]
    /\ UNCHANGED <<mcpClient, lcCall, lcOthers>>

\* The tool load or create_agent raises inside "async with client.session":
\* the exception leaves the block, which closes the session, and nothing is
\* yielded.
FailInSession ==
    /\ ctx.pc \in {"session_open", "tools_loaded"}
    /\ ctx' = [ctx EXCEPT !.pc = "failed", !.session = "closed",
                          !.tools = <<>>, !.filter = EmptyDict]
    /\ UNCHANGED <<mcpClient, lcCall, lcOthers>>

\* ExitContext with the session left open when the body raised.
ExitContextLeaking(raised) ==
    /\ ctx.pc = "yielded"
    /\ ctx' = [ctx EXCEPT !.pc = "closed",
                          !.session = IF raised THEN "open" ELSE "closed",
                          !.body_raised = raised,
                          !.tools = <<>>, !.agent = EmptyDict]
    /\ UNCHANGED <<mcpClient, lcCall, lcOthers>>

\* The body of the caller's "async with" ends, normally or by raising: the
\* generator leaves "async with client.session(...)", which closes the session,
\* and its frame (tools, agent) is gone.
ExitContext(raised) ==
    /\ ctx.pc = "yielded"
    /\ ctx' = [ctx EXCEPT !.pc = "closed", !.session = "closed",
                          !.body_raised = raised,
                          !.tools = <<>>, !.agent = EmptyDict]
    /\ UNCHANGED <<mcpClient, lcCall, lcOthers>>

LcNext ==
    \/ \E u \in UrlArgs, t \in TransportArgs, c \in CategoryArgs, h \in BOOLEAN,
          k \in SecurityKwargs : CreateSecurityOpsAgent(u, t, c, h, k)
    \/ \E cr \in ToolsetCreators, u \in UrlArgs, t \in TransportArgs,
          k \in SecurityKwargs : CreateToolsetAgent(cr, u, t, k)
    \/ \E a \in AgentTypeArgs : \E kw \in IbmiKwargs(a) : CreateIbmiAgent(a, kw)
    \/ OpenSession
    \/ \E tools \in ToolLists : LoadSecurityTools(tools)
    \/ \E tools \in ToolsetToolLists : LoadToolsetTools(tools)
    \/ CreateSecurityAgent
    \/ CreateToolsetAgentInSession
    \/ FailInSession
    \/ \E raised \in BOOLEAN : ExitContext(raised)

(***************************************************************************)
(* workflows/system_health_audit.py, performance_investigation.py,          *)
(* database_performance_tuning.py and app/workflows/capacity_planning.py   *)
(***************************************************************************)
MaxWords == 2

\* A step's text output is a sequence of words (joined by single spaces).
HealthWords == {"healthy", "WARNING", "Highly", "utilization", "above"}
HealthContents == UNION {[1..n -> HealthWords] : n \in 0..MaxWords}
OtherContents == {<<"healthy">>, <<"WARNING">>}

\* The outputs the agent of a step may produce.
AgentOutputs(step_name) ==
    IF step_name = "InitialHealthCheck" THEN HealthContents ELSE OtherContents

concern_indicators ==
    {<<"warning">>, <<"high">>, <<"critical">>, <<"exceed">>, <<"bottleneck">>,
     <<"slow">>, <<"issue">>, <<"problem">>, <<"concern">>, <<"degradation">>,
     <<"utilization", "above">>, <<"approaching", "limit">>}

\* A one-word indicator is a substring of a word: the word itself, or a longer
\* word of the vocabulary that holds it.
WordHolds(word, indicator_word) ==
    \/ word = indicator_word
    \/ <<word, indicator_word>> \in {<<"highly", "high">>}

\* "indicator in text" for a text of words
InText(indicator, text) ==
    \E i \in 1..(Len(text) - Len(indicator) + 1) :
        \A k \in 1..Len(indicator) :
            IF Len(indicator) = 1
            THEN WordHolds(text[i + k - 1], indicator[k])
            ELSE text[i + k - 1] = indicator[k]

\* needs_deeper_investigation on step_input.previous_step_content (an Optional)
needs_deeper_investigation(previous_step_content) ==
    LET health_content ==
            IF previous_step_content = None THEN <<>> ELSE Value(previous_step_content)
    IN  \E indicator \in concern_indicators : InText(indicator, Lower(health_content))

Step(name, run) == [type |-> "Step", name |-> name, run |-> run]
Condition(name, steps) == [type |-> "Condition", name |-> name, steps |-> steps]
Parallel(name, steps) == [type |-> "Parallel", name |-> name, steps |-> steps]

\* The audit workflow with the report step moved into the Condition.
system_health_audit_workflow_report_inside ==
    <<Step("InitialHealthCheck", "agent"),
      Condition("DeepInvestigation",
                <<Step("ServiceAnalysis", "agent"),
                  Step("ConfigurationReview", "agent"),
                  Step("BestPracticesCheck", "agent"),
                  Step("AuditReport", "agent")>>)>>

system_health_audit_workflow ==
    <<Step("InitialHealthCheck", "agent"),
      Condition("DeepInvestigation",
                <<Step("ServiceAnalysis", "agent"),
                  Step("ConfigurationReview", "agent"),
                  Step("BestPracticesCheck", "agent")>>),
      Step("AuditReport", "agent")>>

\* The capacity workflow with the synthesis step as a third parallel branch.
capacity_planning_workflow_synthesis_parallel ==
    <<Parallel("ParallelCapacityGathering",
               <<Step("CurrentUtilization", "agent"),
                 Step("ServiceInventory", "agent"),
                 Step("CapacitySynthesis", "agent")>>),
      Step("CapacityAnalysis", "agent"),
      Step("CapacityPlanning", "agent")>>

capacity_planning_workflow ==
    <<Parallel("ParallelCapacityGathering",
               <<Step("CurrentUtilization", "agent"),
                 Step("ServiceInventory", "agent")>>),
      Step("CapacitySynthesis", "executor"),
      Step("CapacityAnalysis", "agent"),
      Step("CapacityPlanning", "agent")>>

\* The slices synthesize_capacity_data takes of the two outputs
UtilizationSlice == 1500
ServiceSlice == 800

\* s[:n]
Slice(s, n) == SubSeq(s, 1, IF Len(s) < n THEN Len(s) ELSE n)

\* dict.get(key, default)
DictGet(d, key, default) == IF key \in DOMAIN d THEN d[key] ELSE default

\* synthesize_capacity_data on the outputs get_step_content can see
synthesize_capacity_data(outputs) ==
    LET parallel_outputs == DictGet(outputs, "ParallelCapacityGathering", EmptyDict)
        utilization_data == DictGet(parallel_outputs, "CurrentUtilization", <<>>)
        service_data == DictGet(parallel_outputs, "ServiceInventory", <<>>)
    IN  [step_name |-> "CapacitySynthesis",
         content |-> [utilization |-> Slice(utilization_data, UtilizationSlice),
                      services |-> Slice(service_data, ServiceSlice)],
         success |-> TRUE]

\* The investigation workflow with the analysis step placed before the step
\* whose output it reads.
performance_investigation_workflow_analysis_early ==
    <<Step("InitialMetrics", "agent"),
      Step("DeepAnalysis", "executor"),
      Step("MonitoringServices", "agent"),
      Step("AnalysisExecution", "agent"),
      Step("Recommendations", "agent")>>

performance_investigation_workflow ==
    <<Step("InitialMetrics", "agent"),
      Step("MonitoringServices", "agent"),
      Step("DeepAnalysis", "executor"),
      Step("AnalysisExecution", "agent"),
      Step("Recommendations", "agent")>>

database_performance_tuning_workflow ==
    <<Step("DatabaseMetrics", "agent"),
      Step("DatabaseServices", "agent"),
      Step("DatabaseBestPractices", "agent"),
      Step("DatabaseAnalysis", "executor"),
      Step("AnalysisExecution", "agent"),
      Step("TuningRecommendations", "agent")>>

\* The slices the two analysis executors take of the outputs they read
InitialMetricsSlice == 1000
MonitoringServicesSlice == 500
DatabaseMetricsSlice == 1200
DatabaseServicesSlice == 800
BestPracticesSlice == 800

\* deep_performance_analysis on the outputs get_step_content can see
deep_performance_analysis(outputs) ==
    LET metrics_data == DictGet(outputs, "InitialMetrics", <<>>)
        services_data == DictGet(outputs, "MonitoringServices", <<>>)
    IN  [step_name |-> "DeepAnalysis",
         content |-> [metrics |-> Slice(metrics_data, InitialMetricsSlice),
                      services |-> Slice(services_data, MonitoringServicesSlice)],
         success |-> TRUE]

\* database_performance_analysis on the outputs get_step_content can see
database_performance_analysis(outputs) ==
    LET metrics == DictGet(outputs, "DatabaseMetrics", <<>>)
        services == DictGet(outputs, "DatabaseServices", <<>>)
        best_practices == DictGet(outputs, "DatabaseBestPractices", <<>>)
    IN  [step_name |-> "DatabaseAnalysis",
         content |-> [metrics |-> Slice(metrics, DatabaseMetricsSlice),
                      services |-> Slice(services, DatabaseServicesSlice),
                      best_practices |-> Slice(best_practices, BestPracticesSlice)],
         success |-> TRUE]

\* The executor of an executor Step, by the Step's name: the step names it
\* passes to get_step_content, in the order of the calls, and what it returns.
StepContentReads(step_name) ==
    CASE step_name = "CapacitySynthesis" -> <<"ParallelCapacityGathering">>
      [] step_name = "DeepAnalysis" -> <<"InitialMetrics", "MonitoringServices">>
      [] step_name = "DatabaseAnalysis" ->
            <<"DatabaseMetrics", "DatabaseServices", "DatabaseBestPractices">>
RunExecutor(step_name, outputs) ==
    CASE step_name = "CapacitySynthesis" -> synthesize_capacity_data(outputs)
      [] step_name = "DeepAnalysis" -> deep_performance_analysis(outputs)
      [] step_name = "DatabaseAnalysis" -> database_performance_analysis(outputs)

\* The step list being executed, and the node the run is at.
Workflow ==
    IF wf = "audit" THEN system_health_audit_workflow
    ELSE IF wf = "investigation" THEN performance_investigation_workflow
    ELSE IF wf = "tuning" THEN database_performance_tuning_workflow
    ELSE capacity_planning_workflow
WfDone == wfPc > Len(Workflow)
Node == Workflow[wfPc]
NodeNames(node) == {node.steps[i].name : i \in 1..Len(node.steps)}

Event(ev, step) == [ev |-> ev, step |-> step]

\* The content of the step that finished last, as a Condition's evaluator sees it
PreviousStepContent ==
    LET done == {i \in 1..Len(wfLog) : wfLog[i].ev = "finish"}
    IN  IF done = {} THEN None
        ELSE Some(wfOut[wfLog[CHOOSE i \in done : \A j \in done : j <= i].step])

WfIdle ==
    /\ wf = "none"
    /\ wfPc = 1
    /\ wfInner = 0
    /\ wfRunning = {}
    /\ wfBranch = EmptyDict
    /\ wfOut = EmptyDict
    /\ wfLog = <<>>

WfInit(name) ==
    /\ wf = name
    /\ wfPc = 1
    /\ wfInner = 0
    /\ wfRunning = {}
    /\ wfBranch = EmptyDict
    /\ wfOut = EmptyDict
    /\ wfLog = <<>>

\* A Step of the step list starts.
StartStep ==
    /\ ~WfDone
    /\ Node.type = "Step"
    /\ Node.name \notin wfRunning
    /\ wfRunning' = {Node.name}
    /\ wfLog' = Append(wfLog, Event("start", Node.name))
    /\ UNCHANGED <<wf, wfPc, wfInner, wfBranch, wfOut, wfOthers>>

\* The agent of the running Step answers; the run moves to the next node.
FinishAgentStep(content) ==
    /\ ~WfDone
    /\ Node.type = "Step"
    /\ Node.run = "agent"
    /\ Node.name \in wfRunning
    /\ content \in AgentOutputs(Node.name)
    /\ wfOut' = DictUpdate(wfOut, [k \in {Node.name} |-> content])
    /\ wfRunning' = {}
    /\ wfLog' = Append(wfLog, Event("finish", Node.name))
    /\ wfPc' = wfPc + 1
    /\ UNCHANGED <<wf, wfInner, wfBranch, wfOthers>>

\* The executor of the running Step runs: it reads earlier outputs with
\* get_step_content and returns its StepOutput.
FinishExecutorStep ==
    /\ ~WfDone
    /\ Node.type = "Step"
    /\ Node.run = "executor"
    /\ Node.name \in wfRunning
    /\ wfOut' = DictUpdate(wfOut, [k \in {Node.name} |-> RunExecutor(Node.name, wfOut)])
    /\ wfRunning' = {}
    /\ LET reads == StepContentReads(Node.name)
       IN  wfLog' = Append(wfLog \o [i \in 1..Len(reads) |->
                                        [ev |-> "read", step |-> reads[i], by |-> Node.name]],
                           Event("finish", Node.name))
    /\ wfPc' = wfPc + 1
    /\ UNCHANGED <<wf, wfInner, wfBranch, wfOthers>>

\* The Condition's evaluator runs on the previous step's content: true enters
\* the Condition's steps, false skips them.
EvaluateCondition ==
    /\ ~WfDone
    /\ Node.type = "Condition"
    /\ wfInner = 0
    /\ LET result == needs_deeper_investigation(PreviousStepContent)
       IN  /\ wfLog' = Append(wfLog, [ev |-> "condition", step |-> Node.name,
                                      value |-> result])
           /\ IF result
              THEN wfInner' = 1 /\ wfPc' = wfPc
              ELSE wfInner' = 0 /\ wfPc' = wfPc + 1
    /\ UNCHANGED <<wf, wfRunning, wfBranch, wfOut, wfOthers>>

\* A step of the entered Condition starts.
StartConditionStep ==
    /\ ~WfDone
    /\ Node.type = "Condition"
    /\ wfInner >= 1
    /\ Node.steps[wfInner].name \notin wfRunning
    /\ wfRunning' = {Node.steps[wfInner].name}
    /\ wfLog' = Append(wfLog, Event("start", Node.steps[wfInner].name))
    /\ UNCHANGED <<wf, wfPc, wfInner, wfBranch, wfOut, wfOthers>>

\* The running step of the Condition finishes; after its last step the run
\* moves past the Condition.
FinishConditionStep(content) ==
    /\ ~WfDone
    /\ Node.type = "Condition"
    /\ wfInner >= 1
    /\ Node.steps[wfInner].name \in wfRunning
    /\ content \in AgentOutputs(Node.steps[wfInner].name)
    /\ wfOut' = DictUpdate(wfOut, [k \in {Node.steps[wfInner].name} |-> content])
    /\ wfRunning' = {}
    /\ wfLog' = Append(wfLog, Event("finish", Node.steps[wfInner].name))
    /\ IF wfInner < Len(Node.steps)
       THEN wfInner' = wfInner + 1 /\ wfPc' = wfPc
       ELSE wfInner' = 0 /\ wfPc' = wfPc + 1
    /\ UNCHANGED <<wf, wfBranch, wfOthers>>

\* A branch of the Parallel starts, whatever the other branches are doing.
StartParallelStep(name) ==
    /\ ~WfDone
    /\ Node.type = "Parallel"
    /\ name \in NodeNames(Node)
    /\ name \notin wfRunning
    /\ name \notin DOMAIN wfBranch
    /\ wfRunning' = wfRunning \cup {name}
    /\ wfLog' = Append(wfLog, Event("start", name))
    /\ UNCHANGED <<wf, wfPc, wfInner, wfBranch, wfOut, wfOthers>>

\* A running branch of the Parallel finishes; when it was the last one the
\* Parallel's output (branch name -> content) is stored under the Parallel's
\* name and the run moves on.
FinishParallelStep(name, content) ==
    /\ ~WfDone
    /\ Node.type = "Parallel"
    /\ name \in wfRunning
    /\ content \in AgentOutputs(name)
    /\ wfRunning' = wfRunning \ {name}
    /\ wfLog' = Append(wfLog, Event("finish", name))
    /\ LET branch == DictUpdate(wfBranch, [k \in {name} |-> content])
       IN  IF DOMAIN branch = NodeNames(Node)
           THEN /\ wfOut' = DictUpdate(wfOut, [k \in {Node.name} |-> branch])
                /\ wfBranch' = EmptyDict
                /\ wfPc' = wfPc + 1
           ELSE /\ wfBranch' = branch
                /\ UNCHANGED <<wfOut, wfPc>>
    /\ UNCHANGED <<wf, wfInner, wfOthers>>

AuditNext ==
    \/ StartStep
    \/ \E c \in HealthContents \cup OtherContents : FinishAgentStep(c)
    \/ EvaluateCondition
    \/ StartConditionStep
    \/ \E c \in OtherContents : FinishConditionStep(c)

CapacityNext ==
    \/ \E n \in NodeNames(capacity_planning_workflow[1]) : StartParallelStep(n)
    \/ \E n \in NodeNames(capacity_planning_workflow[1]), c \in OtherContents :
          FinishParallelStep(n, c)
    \/ StartStep
    \/ FinishExecutorStep
    \/ \E c \in OtherContents : FinishAgentStep(c)

(***************************************************************************)
(* Specifications                                                          *)
(***************************************************************************)
InitModelSelector == SelInit /\ CfgIdle /\ BldIdle /\ RegIdle /\ LcIdle /\ WfIdle
SpecModelSelector == InitModelSelector /\ [][SelNext]_vars

InitConfig == SelIdle /\ CfgInit /\ BldIdle /\ RegIdle /\ LcIdle /\ WfIdle
SpecConfig == InitConfig /\ [][CfgNext]_vars

InitBuilder == SelIdle /\ CfgIdle /\ BldInit /\ RegIdle /\ LcIdle /\ WfIdle
SpecBuilder == InitBuilder /\ [][BldNext]_vars

InitRegistry == SelIdle /\ CfgIdle /\ BldIdle /\ RegInit /\ LcIdle /\ WfIdle
SpecRegistry == InitRegistry /\ [][RegNext]_vars

InitLangchain == SelIdle /\ CfgIdle /\ BldIdle /\ RegIdle /\ LcInit /\ WfIdle
SpecLangchain == InitLangchain /\ [][LcNext]_vars

InitAudit == SelIdle /\ CfgIdle /\ BldIdle /\ RegIdle /\ LcIdle /\ WfInit("audit")
SpecAudit == InitAudit /\ [][AuditNext]_vars

InitExecutorWorkflows ==
    /\ SelIdle /\ CfgIdle /\ BldIdle /\ RegIdle /\ LcIdle
    /\ \E name \in {"capacity", "investigation", "tuning"} : WfInit(name)
SpecExecutorWorkflows == InitExecutorWorkflows /\ [][CapacityNext]_vars

InitCapacity == SelIdle /\ CfgIdle /\ BldIdle /\ RegIdle /\ LcIdle /\ WfInit("capacity")
SpecCapacity == InitCapacity /\ [][CapacityNext]_vars

(***************************************************************************)
(* Properties of the model selector                                        *)
(***************************************************************************)
\* A str of the form 'watsonx:<model_id>'
IsWatsonxSpec(s) == Len(s) >= 2 /\ s[1] = "watsonx" /\ s[2] = Colon

\* C6: get_model applied to a spec 'watsonx:<model_id>' does not raise and
\* returns a model instance whose id is <model_id>.
C6_WatsonxSupported ==
    (selCall = "get_model" /\ selArg.kind = "str" /\ IsWatsonxSpec(selArg.val))
        => /\ selResult.kind = "return"
           /\ selResult.value.kind = "model"
           /\ selResult.value.id = SubSeq(selArg.val, 3, Len(selArg.val))

\* C7: for every key of COMMON_MODELS, get_model_by_alias returns a model
\* instance whose id is the text after the first ':' of the alias's spec.
C7_EveryAliasResolves ==
    (selCall = "get_model_by_alias" /\ IsAlias(selArg.val))
        => /\ selResult.kind = "return"
           /\ selResult.value.kind = "model"
           /\ selResult.value.id = Split1(COMMON_MODELS[selArg.val[1]])[2]

\* The providers get_model names as supported
SupportedProviders == {<<"openai">>, <<"anthropic">>, <<"watsonx">>, <<"ollama">>}

HasColon(s) == \E i \in 1..Len(s) : s[i] = Colon
FirstColon(s) ==
    CHOOSE i \in 1..Len(s) : s[i] = Colon /\ \A j \in 1..(i - 1) : s[j] # Colon
BeforeColon(s) == SubSeq(s, 1, FirstColon(s) - 1)
AfterColon(s) == SubSeq(s, FirstColon(s) + 1, Len(s))

\* C17: get_model raises ValueError for a str spec without ':' and for a spec
\* whose provider (the text before the first ':', lower-cased and stripped) is
\* not a supported provider, so no model instance is constructed for either.
C17_InvalidSpecRaises ==
    (/\ selCall = "get_model"
     /\ selArg.kind = "str"
     /\ \/ ~HasColon(selArg.val)
        \/ Strip(Lower(BeforeColon(selArg.val))) \notin SupportedProviders)
        => selResult = Raised("ValueError")

\* get_model refused 'Invalid :gpt-4o'-like input: a provider that is not
\* supported, written with whitespace around it.
C17_Witness ==
    /\ selCall = "get_model"
    /\ selArg.kind = "str"
    /\ Len(selArg.val) = 4
    /\ selArg.val[1] = "invalid"
    /\ selArg.val[2] = Space
    /\ selArg.val[3] = Colon
    /\ selResult = Raised("ValueError")

\* C18: parse_model_spec splits at the first ':' only: it returns the text
\* before it lower-cased and stripped and the text after it stripped, later
\* ':' kept, and raises ValueError when there is no ':'.
C18_ParseFirstColon ==
    selCall = "parse_model_spec" =>
        IF HasColon(selArg.val)
        THEN selResult = Returned(<<Strip(Lower(BeforeColon(selArg.val))),
                                    Strip(AfterColon(selArg.val))>>)
        ELSE selResult = Raised("ValueError")

\* 'OpenAI:gpt-4o:...' was parsed: the provider lower-cased, the second ':'
\* in the model id.
C18_Witness ==
    /\ selCall = "parse_model_spec"
    /\ Len(selArg.val) = 4
    /\ selArg.val[1] = "OpenAI"
    /\ selArg.val[2] = Colon
    /\ selArg.val[4] = Colon
    /\ selResult.kind = "return"
    /\ selResult.value[1] = <<"openai">>
    /\ Len(selResult.value[2]) = 2

(***************************************************************************)
(* Properties of the run configuration                                     *)
(***************************************************************************)
CfgCalled == cfgCall.kind = "with_config_overrides"
CfgSelf == configs[cfgCall.self]
CfgResult == configs[cfgCall.result]
CfgEntry == CfgSelf.config_manager.file[cfgCall.agent_id]

\* C8: with a config_manager set, the result of with_config_overrides has the
\* file's model for that agent when the file gives a non-empty one and the
\* runtime model otherwise, and the file's debug_mode and enable_reasoning
\* whenever the file sets them (an explicit False included) and the runtime
\* values otherwise.
C8_FileOverrides ==
    (CfgCalled /\ CfgSelf.config_manager # NoManager) =>
        /\ \A m \in CfgEntry.model :
              m.val # <<>> => CfgResult.model = m
        /\ (CfgEntry.model \subseteq {Str(<<>>)}) => CfgResult.model = CfgSelf.model
        /\ \A b \in CfgEntry.debug_mode : CfgResult.debug_mode = b
        /\ CfgEntry.debug_mode = None => CfgResult.debug_mode = CfgSelf.debug_mode
        /\ \A b \in CfgEntry.enable_reasoning : CfgResult.enable_reasoning = b
        /\ CfgEntry.enable_reasoning = None
              => CfgResult.enable_reasoning = CfgSelf.enable_reasoning

\* A file's explicit False has overridden a runtime True, and the file's model
\* has replaced the runtime one.
C8_Witness ==
    /\ CfgCalled
    /\ CfgSelf.config_manager # NoManager
    /\ CfgSelf.debug_mode /\ CfgEntry.debug_mode = Some(FALSE) /\ ~CfgResult.debug_mode
    /\ CfgSelf.enable_reasoning /\ CfgEntry.enable_reasoning = Some(FALSE)
    /\ CfgEntry.model = Some(AnthropicSpec) /\ CfgResult.model = AnthropicSpec

\* C9: a with_config_overrides call leaves every existing AgentRunConfig as it
\* was (the receiver included); its result has the receiver's mcp_url,
\* transport, debug_filtering and config_manager; and the result is the receiver
\* itself when the receiver has no config_manager.
C9_Step ==
    LET self == configs[cfgCall'.self]
        result == configs'[cfgCall'.result]
    IN  /\ \A i \in 1..Len(configs) : configs'[i] = configs[i]
        /\ result.mcp_url = self.mcp_url
        /\ result.transport = self.transport
        /\ result.debug_filtering = self.debug_filtering
        /\ result.config_manager = self.config_manager
        /\ self.config_manager = NoManager => cfgCall'.result = cfgCall'.self

C9_Frame == [][C9_Step]_vars

\* A call on a receiver with a config_manager whose file sets every field, and
\* with mcp_url, transport and debug_filtering set, has made a new object.
C9_Witness ==
    /\ CfgCalled
    /\ cfgCall.result # cfgCall.self
    /\ CfgEntry = OtherEntry
    /\ CfgSelf.mcp_url # None /\ CfgSelf.transport # None /\ CfgSelf.debug_filtering
    /\ CfgResult.mcp_url = CfgSelf.mcp_url

(***************************************************************************)
(* Properties of the agent builder                                         *)
(***************************************************************************)
Built == lastBuild.kind = "build"
BuiltAgent == Built /\ lastBuild.result.kind = "return"

C10_AlwaysFiltered ==
    BuiltAgent =>
        \E i \in 1..Len(lastBuild.result.value.tools) :
            lastBuild.result.value.tools[i].cls = "FilteredMCPTools"

\* The value an Agent was constructed with for the parameter k
AgentParameter(agent, k) ==
    IF k \in ExplicitAgentArgs THEN agent[k] ELSE agent.kwargs[k]

\* C11: for every key passed to with_agent_kwargs, a later build (of a model
\* spec get_model accepts) succeeds and constructs the Agent with the passed
\* value for that key.
C11_KwargsOverride ==
    (Built /\ get_model(with_config_overrides(lastBuild.config, builder.agent_id).model).kind
                = "return")
        => /\ lastBuild.result.kind = "return"
           /\ \A k \in DOMAIN builder.agent_kwargs :
                 AgentParameter(lastBuild.result.value, k) = builder.agent_kwargs[k]

(***************************************************************************)
(* Properties of the agent registry                                        *)
(***************************************************************************)
\* C5: a register_agent call whose metadata.id is already a key of the
\* registry raises ValueError and leaves the registry as it was: the id keeps
\* its first registration and no entry is added or removed.
C5_Step ==
    (regCall'.kind = "register_agent" /\ regCall'.metadata.id \in DOMAIN registry)
        => /\ regCall'.result = Raised("ValueError")
           /\ registry' = registry

C5_DuplicateRejected == [][C5_Step]_vars

\* A duplicate registration under another name and factory was refused, with
\* another agent registered beside the first one.
C5_Witness ==
    /\ regCall.kind = "register_agent"
    /\ regCall.result.kind = "raise"
    /\ registry[regCall.metadata.id].factory # regCall.factory
    /\ registry[regCall.metadata.id].metadata # regCall.metadata
    /\ Cardinality(DOMAIN registry) = 2

\* The modules the claim is about: the workflow modules and app/main.py
CallerModules ==
    {"app/main.py", "workflows/system_health_audit.py",
     "workflows/performance_investigation.py",
     "workflows/database_performance_tuning.py", "workflows/service_discovery.py"}

\* C12: every factory takes its settings through the single parameter config,
\* and no factory call made by a workflow module or by app/main.py fails on
\* its arguments.
C12_CallsAccepted ==
    /\ \A f \in AgentFactories : FactorySignature(f).params = <<"config">>
    /\ (regCall.kind = "factory_call" /\ regCall.module \in CallerModules)
          => regCall.result.kind = "return"

(***************************************************************************)
(* Properties of the security operations agent                             *)
(***************************************************************************)
AgentCreated == ctx.pc = "yielded" /\ ctx.agent_type = "security"

\* The loaded tools whose readOnlyHint is False
WriteTools ==
    {ctx.tools[i] : i \in {j \in 1..Len(ctx.tools) :
        /\ ctx.tools[j].metadata.kind = "dict"
        /\ "readOnlyHint" \in DOMAIN ctx.tools[j].metadata.items
        /\ ctx.tools[j].metadata.items["readOnlyHint"] = "False"}}

\* The human-in-the-loop middleware the agent was created with
AgentHitl ==
    IF "middleware" \in DOMAIN ctx.agent
    THEN {ctx.agent["middleware"][i] : i \in {j \in 1..Len(ctx.agent["middleware"]) :
            ctx.agent["middleware"][j].cls = "HumanInTheLoopMiddleware"}}
    ELSE {}

C13_ClientConfigured ==
    ctx.pc # "none"
        => /\ ctx.client.ibmi_tools.url = ctx.mcp_url
           /\ ctx.client.ibmi_tools.transport = ctx.transport

\* C14: in every context manager a create_*_agent call returns, the tools are
\* loaded only after the session was opened, the agent is created and handed
\* to the caller only after the tools were loaded and while the session is
\* open, and the session is closed when the context is left, whether the body
\* raised or not.
C14_Step ==
    /\ (ctx'.pc = "tools_loaded" /\ ctx.pc # "tools_loaded")
          => ctx.pc = "session_open" /\ ctx.session = "open"
    /\ (ctx'.pc = "yielded" /\ ctx.pc # "yielded")
          => ctx.pc = "tools_loaded" /\ DOMAIN ctx'.agent # {}
    /\ ctx'.pc = "yielded" => ctx'.session = "open"
    /\ (ctx.pc = "yielded" /\ ctx'.pc # "yielded") => ctx'.session = "closed"

C14_SessionLifecycle == [][C14_Step]_vars

\* A toolset agent's context was left by an exception in the body, and its
\* session is closed.
C14_Witness ==
    /\ ctx.pc = "closed"
    /\ ctx.creator \in ToolsetCreators
    /\ ctx.body_raised
    /\ ctx.session = "closed"

C15_Creator(t) ==
    CASE t = "performance" -> "create_performance_agent"
      [] t = "discovery" -> "create_sysadmin_discovery_agent"
      [] t = "browse" -> "create_sysadmin_browse_agent"
      [] t = "search" -> "create_sysadmin_search_agent"
      [] t = "security" -> "create_security_ops_agent"

\* C15: create_ibmi_agent raises ValueError for an agent_type that is not a
\* key of AVAILABLE_AGENTS, with no MCP client made and no context manager
\* made or touched; for a known type it returns the context manager that
\* type's creator produces when called with the same keyword arguments.
C15_Step ==
    lcCall'.kind = "create_ibmi_agent" =>
        IF lcCall'.agent_type \notin {"performance", "discovery", "browse", "search", "security"}
        THEN /\ lcCall'.result = Raised("ValueError")
             /\ mcpClient' = mcpClient
             /\ ctx' = ctx
        ELSE LET r == CallCreator(C15_Creator(lcCall'.agent_type), mcpClient, lcCall'.kwargs)
             IN  /\ lcCall'.result.kind = "return"
                 /\ ctx' = r.ctx
                 /\ mcpClient' = r.client

C16_SecurityFilter ==
    (ctx.pc \in {"tools_loaded", "yielded"} /\ ctx.creator = "create_security_ops_agent")
        => IF ctx.category \in {None, Some("")}
           THEN /\ DOMAIN ctx.filter = {"domain"}
                /\ ctx.filter.domain = "security"
           ELSE /\ DOMAIN ctx.filter = {"domain", "category"}
                /\ ctx.filter.domain = "security"
                /\ ctx.filter.category = Value(ctx.category)

\* Security tools were loaded for an empty category, and for a category.
C16_Witness ==
    /\ ctx.pc = "tools_loaded"
    /\ ctx.creator = "create_security_ops_agent"
    /\ ctx.category = Some("")
    /\ Len(ctx.tools) > 0

(***************************************************************************)
(* Properties of the workflow step graphs                                  *)
(***************************************************************************)
IsPrefix(a, b) == Len(a) <= Len(b) /\ SubSeq(b, 1, Len(a)) = a

\* The names of the steps started so far, in the order they started
StartEvents == SelectSeq(wfLog, LAMBDA e : e.ev = "start")
StartOrder == [i \in 1..Len(StartEvents) |-> StartEvents[i].step]

\* The position in the log of a step's start and finish (0: not yet)
PosOf(ev, step) ==
    IF \E i \in 1..Len(wfLog) : wfLog[i] = Event(ev, step)
    THEN CHOOSE i \in 1..Len(wfLog) : wfLog[i] = Event(ev, step)
    ELSE 0
Before(i, j) == i # 0 /\ j # 0 /\ i < j

\* The steps a system health audit runs, by the evaluator's verdict
AuditOrder(deeper) ==
    IF deeper
    THEN <<"InitialHealthCheck", "ServiceAnalysis", "ConfigurationReview",
           "BestPracticesCheck", "AuditReport">>
    ELSE <<"InitialHealthCheck", "AuditReport">>

\* C2: a system health audit starts InitialHealthCheck first; the steps it goes
\* on to start are ServiceAnalysis, ConfigurationReview, BestPracticesCheck and
\* then AuditReport when needs_deeper_investigation is true of the
\* InitialHealthCheck output, and AuditReport alone when it is false; each step
\* starts only after the one before it finished; a finished run has run them all.
C2_AuditOrder ==
    wf = "audit" =>
        /\ "InitialHealthCheck" \notin DOMAIN wfOut
              => StartOrder \in {<<>>, <<"InitialHealthCheck">>}
        /\ "InitialHealthCheck" \in DOMAIN wfOut
              => LET deeper == needs_deeper_investigation(Some(wfOut["InitialHealthCheck"]))
                 IN  /\ IsPrefix(StartOrder, AuditOrder(deeper))
                     /\ WfDone => StartOrder = AuditOrder(deeper)
        /\ WfDone => "InitialHealthCheck" \in DOMAIN wfOut
        /\ \A i \in 1..Len(wfLog) :
              wfLog[i].ev = "start" =>
                  \/ i = Len(wfLog)
                  \/ wfLog[i + 1] = Event("finish", wfLog[i].step)

\* A finished audit whose health check spoke of "utilization above" ran the
\* three investigation steps between the health check and the report.
C2_Witness ==
    /\ wf = "audit"
    /\ WfDone
    /\ wfOut["InitialHealthCheck"] = <<"utilization", "above">>
    /\ Len(StartOrder) = 5

\* C3: in a capacity planning run CapacitySynthesis starts only after both
\* CurrentUtilization and ServiceInventory finished, CapacityAnalysis only after
\* CapacitySynthesis finished and CapacityPlanning only after CapacityAnalysis
\* finished; a finished run has finished all five.
C3_CapacityOrder ==
    wf = "capacity" =>
        /\ PosOf("start", "CapacitySynthesis") # 0
              => /\ Before(PosOf("finish", "CurrentUtilization"),
                           PosOf("start", "CapacitySynthesis"))
                 /\ Before(PosOf("finish", "ServiceInventory"),
                           PosOf("start", "CapacitySynthesis"))
        /\ PosOf("start", "CapacityAnalysis") # 0
              => Before(PosOf("finish", "CapacitySynthesis"), PosOf("start", "CapacityAnalysis"))
        /\ PosOf("start", "CapacityPlanning") # 0
              => Before(PosOf("finish", "CapacityAnalysis"), PosOf("start", "CapacityPlanning"))
        /\ WfDone
              => \A n \in {"CurrentUtilization", "ServiceInventory", "CapacitySynthesis",
                           "CapacityAnalysis", "CapacityPlanning"} :
                    Before(PosOf("start", n), PosOf("finish", n))

\* A finished run in which the two gathering steps interleaved: ServiceInventory
\* started first, CurrentUtilization started and finished while it ran.
C3_Witness ==
    /\ wf = "capacity"
    /\ WfDone
    /\ Before(PosOf("start", "ServiceInventory"), PosOf("start", "CurrentUtilization"))
    /\ Before(PosOf("finish", "CurrentUtilization"), PosOf("finish", "ServiceInventory"))

\* The position in the running workflow's step list of the node named n
\* (0 when no node of the list has that name)
PlaceOf(n) ==
    IF \E p \in 1..Len(Workflow) : Workflow[p].name = n
    THEN CHOOSE p \in 1..Len(Workflow) : Workflow[p].name = n
    ELSE 0

\* C19: in the workflows with a custom executor step, every step name the
\* executor reads with get_step_content is the name of a Step or Parallel
\* placed earlier in the workflow's step list than the executor's Step, and
\* the step_name of the StepOutput the executor returns is the name of the
\* Step that runs it.
C19_ExecutorNames ==
    /\ \A i \in 1..Len(wfLog) :
          wfLog[i].ev = "read" =>
              /\ PlaceOf(wfLog[i].step) >= 1
              /\ PlaceOf(wfLog[i].step) < PlaceOf(wfLog[i].by)
              /\ Workflow[PlaceOf(wfLog[i].step)].type \in {"Step", "Parallel"}
    /\ \A p \in 1..Len(Workflow) :
          (/\ Workflow[p].type = "Step"
           /\ Workflow[p].run = "executor"
           /\ Workflow[p].name \in DOMAIN wfOut)
              => wfOut[Workflow[p].name].step_name = Workflow[p].name

\* The database tuning workflow's executor has run: it read the three earlier
\* steps and returned its StepOutput.
C19_Witness ==
    /\ wf = "tuning"
    /\ "DatabaseAnalysis" \in DOMAIN wfOut
    /\ wfOut["DatabaseAnalysis"].step_name = "DatabaseAnalysis"
    /\ Cardinality({i \in 1..Len(wfLog) : wfLog[i].ev = "read"}) = 3

====
